---- MODULE Spec2Model ----
(***************************************************************************)
(* A model of the reference resolution and dereferencing engine of         *)
(* criteria-api-tools.                                                     *)
(*                                                                         *)
(* Part 1, dereferenceJSONSchema (draft-04): the clone pass and the        *)
(* patch-up loop over a heap of result objects.  The input is a root       *)
(* schema object with one subschema under each of the keys of KeyOrder;    *)
(* a subschema is a plain schema, a pure reference {$ref} or a reference   *)
(* with siblings {$ref, title, not}.  Objects have identity: a result      *)
(* object is its index in the heap, a value is a primitive, a heap object  *)
(* or a source object stored as it is.                                     *)
(***************************************************************************)
EXTENDS Integers, Sequences, FiniteSets, TLC

VARIABLES
  schema,               \* the input: key -> source node of the root schema
  pc,                   \* where dereferenceJSONSchema is
  pos,                  \* clone pass: index in KeyOrder of the next child
  heap,                 \* result objects, by identity (index)
  dereferencedByURI,    \* uri -> value, the cache of dereferenced values
  placeholders,         \* the Set of placeholders, in insertion order
  retrieved,            \* how the retrieval of the other document went
  error,                \* the error thrown, when pc = "thrown"
  errorURI,             \* the uri the error message names, "" when none
  index,                \* SchemaIndex: what the documents declare, see InitDynamic
  schemaPath,           \* the schemaPath handed to dereferenceDynamicReference
  dynPc,                \* position inside dereferenceDynamicReference
  dynPos,               \* the step of schemaPath the loop is at
  candidate,            \* the loop's candidate
  dynResult,            \* the value dereferenceDynamicReference returned
  documents,            \* SchemaIndex session: uri -> the references of the document
  idxPc,                \* where the session of the SchemaIndex is
  stack,                \* the calls and loops of addSchemas/addJSONReferences in progress
  fetched,              \* the documents the DocumentIndex holds, by absolute uri
  schemaIndexed,        \* the roots schemaContentIndex has indexed
  jsonIndexed,          \* the roots jsonReferenceContentIndex has indexed
  references,           \* this.references: the reference nodes recorded
  callbackCalls,        \* uri -> how often the retrieval callback was invoked
  idxResult,            \* what SchemaIndex.dereferenceReference returned
  validation,           \* keyword validator: the schema, failFast and the instance
  valPc,                \* where the call of the keyword validator is
  output                \* the Output the keyword validator returned

derefVars ==
  <<schema, pc, pos, heap, dereferencedByURI, placeholders, retrieved, error, errorURI>>
dynVars == <<index, schemaPath, dynPc, dynPos, candidate, dynResult>>
idxVars ==
  <<documents, idxPc, stack, fetched, schemaIndexed, jsonIndexed, references,
    callbackCalls, idxResult>>
valVars == <<validation, valPc, output>>
vars == <<derefVars, dynVars, idxVars, valVars>>

\* The keys of the root schema that hold a subschema, in traversal order.
KeyOrder == <<"a", "b", "c">>
KeySet == {KeyOrder[i] : i \in 1..Len(KeyOrder)}

\* How many references of one input may use a two-step JSON pointer.
MaxDeepRefs == 1

Range(s) == {s[i] : i \in 1..Len(s)}

----------------------------------------------------------------------------
(* Values and objects *)

Prim(s) == [t |-> "prim", id |-> 0, s |-> s]
Obj(i) == [t |-> "obj", id |-> i, s |-> ""]
Src(s) == [t |-> "src", id |-> 0, s |-> s]
Arr(s) == [t |-> "arr", id |-> 0, s |-> s]
Undefined == [t |-> "undef", id |-> 0, s |-> ""]

\* JavaScript truthiness: every object is truthy, false and undefined are not.
Truthy(v) == v.t \in {"obj", "src", "arr"} \/ (v.t = "prim" /\ v.s # "false")

\* typeof v === 'object'
IsObject(v) == v.t \in {"obj", "src", "arr"}

NoFields == [k \in {} |-> Undefined]

\* Object.assign(f, g) on the string keys: the keys of g overwrite those of f.
Overlay(f, g) == [k \in (DOMAIN f) \cup (DOMAIN g) |-> IF k \in DOMAIN g THEN g[k] ELSE f[k]]

\* The placeholder marker, the value stored under placeholderSymbol.
NoMarker == [has |-> FALSE, hasUris |-> FALSE, uris |-> <<>>, indirect |-> 0]
UrisMarker(uris) == [has |-> TRUE, hasUris |-> TRUE, uris |-> uris, indirect |-> 0]

EmptyObject == [fields |-> NoFields, marker |-> NoMarker]

----------------------------------------------------------------------------
(* URIs and the source schema *)

\* Values of the schema index: a schema node, named by the place that declares
\* it, with its $id and its $dynamicAnchor ("" when absent), or a non-object.
Node(name, at, id, dyn) == [t |-> "node", name |-> name, at |-> at, id |-> id, dyn |-> dyn]
NonObject(t) == [t |-> t, name |-> "", at |-> 0, id |-> "", dyn |-> ""]
NoValue == NonObject("undefined")

\* The values of a JSON instance in the keyword validators: a value that is
\* neither array nor object, an array of items, an object with own properties.
Instance(type, items, keys) == [type |-> type, items |-> items, keys |-> keys]

\* An Output: valid, and what was collected as errors (pairs of indices, or
\* property names); threw: the validator ended with a TypeError instead.
Out(valid, errors) == [produced |-> TRUE, threw |-> FALSE, valid |-> valid, errors |-> errors]
NoValidator == [produced |-> FALSE, threw |-> FALSE, valid |-> TRUE, errors |-> <<>>]
Threw == [produced |-> TRUE, threw |-> TRUE, valid |-> FALSE, errors |-> <<>>]

\* No keyword validator is in use.
ValidationIdle ==
  /\ validation = [keyword |-> "none", failFast |-> FALSE, present |-> FALSE,
                   uniqueItems |-> "absent", entries |-> <<>>,
                   instance |-> Instance("null", <<>>, {})]
  /\ valPc = "off"
  /\ output = NoValidator

\* No call of dereferenceReference was made.
NoResult == [reference |-> [doc |-> "", i |-> 0], value |-> "none"]

\* The session of the SchemaIndex when no document was added to it.
IndexIdle ==
  /\ documents = [d \in {"base", "ext"} |-> <<>>]
  /\ idxPc = "off"
  /\ stack = <<>>
  /\ fetched = {}
  /\ schemaIndexed = {}
  /\ jsonIndexed = {}
  /\ references = {}
  /\ callbackCalls = [d \in {"base", "ext", "gone"} |-> 0]
  /\ idxResult = NoResult

U(ptr) == [doc |-> "base", ptr |-> ptr]
RootURI == U(<<>>)

\* The uri of the one other document a reference may point to.
ExtURI == [doc |-> "ext", ptr |-> <<>>]

\* splitFragment(uri).absoluteURI
AbsoluteURI(uri) == [doc |-> uri.doc, ptr |-> <<>>]

Leaf(nest) == [kind |-> "schema", target |-> RootURI, nest |-> nest]
Ref(target) == [kind |-> "ref", target |-> target, nest |-> FALSE]
RefSib(target) == [kind |-> "refsib", target |-> target, nest |-> FALSE]

\* The fields of a plain schema, and the sibling keys of a reference with siblings.
LeafFields == [k \in {"title", "flag"} |-> IF k = "title" THEN Prim("t") ELSE Prim("false")]
SiblingFields(k) == [j \in {"title", "not"} |-> IF j = "title" THEN Prim("s") ELSE Src(k)]

\* The keys of a source object stored as a value: the sibling {$ref: '#'}.
SrcFields(s) == [k \in {"$ref"} |-> Prim("#")]

Targets == {RootURI, ExtURI, U(<<"zz">>)} \cup {U(<<k>>) : k \in KeySet}
DeepTargets == {U(<<x, y>>) : x \in KeySet, y \in KeySet \cup {"title", "flag", "not"}}
Nodes ==
  {Leaf(n) : n \in BOOLEAN} \cup {Ref(t) : t \in Targets \cup DeepTargets}
    \cup {RefSib(t) : t \in Targets}

\* The uris under which results are registered: the indexed locations.
IndexedURIs ==
  {RootURI, ExtURI} \cup {U(<<k>>) : k \in KeySet} \cup {U(<<k, "not">>) : k \in KeySet}

\* The uris indexSchemasInto puts into sourceSchemasByURI: the root, its
\* subschemas, the reference inside a nesting schema, and the root of the other
\* document once it is retrieved; nothing inside the siblings of a reference.
IsIndexed(uri) ==
  \/ uri = ExtURI /\ retrieved = "document"
  \/ /\ uri.doc = "base"
     /\ \/ uri.ptr = <<>>
        \/ Len(uri.ptr) = 1 /\ uri.ptr[1] \in KeySet
        \/ Len(uri.ptr) = 2 /\ uri.ptr[1] \in KeySet /\ uri.ptr[2] = "not"
             /\ schema[uri.ptr[1]].kind = "schema" /\ schema[uri.ptr[1]].nest

sourceSchemasByURI(uri) ==
  IF uri.ptr = <<>> THEN Leaf(FALSE)
  ELSE IF Len(uri.ptr) = 1 THEN schema[uri.ptr[1]]
  ELSE Ref(U(<<uri.ptr[1]>>))

----------------------------------------------------------------------------
(* The helpers of the engine *)

isPlaceholder(h, v) == v.t = "obj" /\ h[v.id].marker.has

Lookup(byURI, uri) == IF uri \in DOMAIN byURI THEN byURI[uri] ELSE Undefined

FieldsOf(h, v) ==
  IF v.t = "obj" THEN h[v.id].fields
  ELSE IF v.t = "src" THEN SrcFields(v.s)
  ELSE NoFields

MarkerOf(h, v) == IF v.t = "obj" THEN h[v.id].marker ELSE NoMarker

RECURSIVE evaluateFragment(_, _, _)
evaluateFragment(h, ptr, v) ==
  IF ptr = <<>> THEN v
  ELSE IF Head(ptr) \in DOMAIN FieldsOf(h, v)
       THEN evaluateFragment(h, Tail(ptr), FieldsOf(h, v)[Head(ptr)])
       ELSE Undefined

\* A registration that records nothing.
RegisterNothing(byURI, uris, v) == byURI

Register(byURI, uris, v) == [u \in DOMAIN byURI |-> IF u \in Range(uris) THEN v ELSE byURI[u]]

RemoveFrom(seq, x) == SelectSeq(seq, LAMBDA y : y # x)
AddTo(seq, x) == IF x \in Range(seq) THEN seq ELSE Append(seq, x)

\* The while loop of dereferenceReference: follow pure references to the first
\* target that is no pure reference, collecting the uris of the targets.  A
\* cycle of pure references never leaves the loop.
RECURSIVE FollowRefs(_, _, _)
FollowRefs(uri, resolved, seen) ==
  IF ~IsIndexed(uri) THEN [uri |-> uri, resolved |-> resolved, diverges |-> FALSE]
  ELSE IF sourceSchemasByURI(uri).kind # "ref"
       THEN [uri |-> uri, resolved |-> Append(resolved, uri), diverges |-> FALSE]
       ELSE IF uri \in seen
            THEN [uri |-> uri, resolved |-> resolved, diverges |-> TRUE]
            ELSE FollowRefs(sourceSchemasByURI(uri).target, Append(resolved, uri), seen \cup {uri})

\* The state of a call: st = [heap, byURI, ph].
dereferenceReference(st, target, resolvedURIs) ==
  LET ch == FollowRefs(target, resolvedURIs, {})
      direct == Lookup(st.byURI, ch.uri)
      parentSchema == Lookup(st.byURI, AbsoluteURI(ch.uri))
      found == IF Truthy(direct) THEN direct
               ELSE IF Truthy(parentSchema)
                    THEN evaluateFragment(st.heap, ch.uri.ptr, parentSchema)
                    ELSE Undefined
      fresh == Len(st.heap) + 1
      result == IF Truthy(found) THEN found ELSE Obj(fresh)
  IN [st |-> [heap |-> IF Truthy(found) THEN st.heap
                       ELSE Append(st.heap, [fields |-> NoFields,
                                             marker |-> UrisMarker(<<ch.uri>> \o ch.resolved)]),
              byURI |-> Register(st.byURI, ch.resolved, result),
              ph |-> IF Truthy(found) THEN st.ph ELSE Append(st.ph, fresh)],
      result |-> result,
      diverges |-> ch.diverges]

\* The lookup loop of dereferenceSubschema and dereferenceReferenceWithSiblings:
\* the first truthy cached value among the uris of the node.
RECURSIVE FirstCached(_, _)
FirstCached(byURI, uris) ==
  IF uris = <<>> THEN Undefined
  ELSE IF Truthy(Lookup(byURI, Head(uris))) THEN Lookup(byURI, Head(uris))
       ELSE FirstCached(byURI, Tail(uris))

\* dereferenceSubschema up to context.cloneInto(result): the result object,
\* registered under the uris of the node.  reused: a cached value that is no
\* placeholder is returned as it is and the node is not cloned into it.
dereferenceSubschema(st, resolvedURIs) ==
  LET cached == FirstCached(st.byURI, resolvedURIs)
      fresh == Len(st.heap) + 1
  IN IF Truthy(cached) /\ ~isPlaceholder(st.heap, cached)
     THEN [st |-> st, result |-> cached, reused |-> TRUE]
     ELSE IF Truthy(cached)
          THEN [st |-> [heap |-> [st.heap EXCEPT ![cached.id].marker = NoMarker],
                        byURI |-> Register(st.byURI, resolvedURIs, cached),
                        ph |-> RemoveFrom(st.ph, cached.id)],
                result |-> cached, reused |-> FALSE]
          ELSE [st |-> [heap |-> Append(st.heap, EmptyObject),
                        byURI |-> Register(st.byURI, resolvedURIs, Obj(fresh)),
                        ph |-> st.ph],
                result |-> Obj(fresh), reused |-> FALSE]

\* target[key] = value, as cloneInto does for each child of a schema.
SetField(st, id, key, v) ==
  [st EXCEPT !.heap = [st.heap EXCEPT ![id].fields = Overlay(@, [k \in {key} |-> v])]]

dereferenceReferenceWithSiblingsShared(st, key, target, resolvedURIs) ==
  LET d == dereferenceReference(st, target, resolvedURIs)
  IN IF d.result.t # "obj" THEN d
     ELSE [d EXCEPT !.st.heap[d.result.id].fields = Overlay(@, SiblingFields(key))]

dereferenceReferenceWithSiblings(st, key, target, resolvedURIs) ==
  LET cached == FirstCached(st.byURI, resolvedURIs)
      early == Truthy(cached) /\ ~isPlaceholder(st.heap, cached)
      fresh == Len(st.heap) + 1
      result == IF Truthy(cached) THEN cached ELSE Obj(fresh)
      st1 == IF Truthy(cached) THEN st ELSE [st EXCEPT !.heap = Append(st.heap, EmptyObject)]
      d == dereferenceReference(st1, target, <<>>)
      h == d.st.heap
      own == h[result.id]
      merged ==
        IF isPlaceholder(h, d.result)
        THEN [fields |-> Overlay(own.fields, SiblingFields(key)),
              marker |-> [own.marker EXCEPT !.has = TRUE, !.indirect = d.result.id]]
        ELSE [fields |-> Overlay(Overlay(own.fields, FieldsOf(h, d.result)), SiblingFields(key)),
              marker |-> own.marker]
  IN IF early THEN [st |-> st, result |-> cached, diverges |-> FALSE]
     ELSE [st |-> [heap |-> [h EXCEPT ![result.id] = merged],
                   byURI |-> Register(d.st.byURI, resolvedURIs, result),
                   ph |-> IF isPlaceholder(h, d.result) THEN AddTo(d.st.ph, result.id) ELSE d.st.ph],
           result |-> result,
           diverges |-> d.diverges]

----------------------------------------------------------------------------
(* The call *)

State == [heap |-> heap, byURI |-> dereferencedByURI, ph |-> placeholders]

Commit(st) ==
  /\ heap' = st.heap
  /\ dereferencedByURI' = st.byURI
  /\ placeholders' = st.ph

InputSchemas ==
  {s \in [KeySet -> Nodes] : Cardinality({k \in KeySet : s[k].target \in DeepTargets}) <= MaxDeepRefs}

Init ==
  /\ schema \in InputSchemas
  /\ pc = "start"
  /\ pos = 1
  /\ heap = <<>>
  /\ dereferencedByURI = [u \in IndexedURIs |-> Undefined]
  /\ placeholders = <<>>
  /\ retrieved = "no"
  /\ error = "none"
  /\ errorURI = ""
  /\ index = [fragment |-> "pointer", extAnchor |-> "none"]
  /\ schemaPath = <<>>
  /\ dynPc = "off"
  /\ dynPos = 1
  /\ candidate = NoValue
  /\ dynResult = NoValue
  /\ IndexIdle
  /\ ValidationIdle

\* The documents other than the base that the references of the schema need.
NeedsExt == \E k \in KeySet : schema[k].kind # "schema" /\ schema[k].target.doc = "ext"

\* What the caller configured and what its callback does for the uri.
RetrieveCases ==
  {"optionsAbsent", "retrieveAbsent", "callbackThrows", "callbackThrowsNaming",
   "returnsNullish", "returnsFalsy", "returnsDocument"}

\* const defaultRetrieve = (uri) => { throw new Error(`Cannot retrieve URI '${uri}'`) }
defaultRetrieve == [document |-> FALSE, error |-> "CannotRetrieveURI", names |-> TRUE]

\* options?.retrieve(uri) ?? defaultRetrieve(uri), then the check of the document.
\* With options but no retrieve in them, options.retrieve(uri) calls undefined.
retrieve(case) ==
  IF case = "optionsAbsent" THEN defaultRetrieve
  ELSE IF case = "retrieveAbsent"
       THEN [document |-> FALSE, error |-> "TypeErrorNotAFunction", names |-> FALSE]
  ELSE IF case = "callbackThrows"
       THEN [document |-> FALSE, error |-> "CallbackError", names |-> FALSE]
  ELSE IF case = "callbackThrowsNaming"
       THEN [document |-> FALSE, error |-> "CallbackError", names |-> TRUE]
  ELSE IF case = "returnsNullish" THEN defaultRetrieve
  ELSE IF case = "returnsFalsy"
       THEN [document |-> FALSE, error |-> "InvalidDocument", names |-> TRUE]
  ELSE [document |-> TRUE, error |-> "none", names |-> FALSE]

\* The number of references for whose document indexSchemasInto calls retrieve.
Requests(uri) ==
  Cardinality({k \in KeySet : schema[k].kind # "schema" /\ schema[k].target.doc = uri})
    + IF uri = "base" THEN Cardinality({k \in KeySet : schema[k].nest}) ELSE 0

\* memoize(fn): fn runs at the first call for a uri, later calls get its result.
memoize(calls) == IF calls > 0 THEN 1 ELSE 0

InvokesCallbackForAny(uri, case) == case \notin {"optionsAbsent", "retrieveAbsent"}

\* uri === baseURI ? schema : options?.retrieve(uri): whether retrieve(uri)
\* invokes the callback of the caller.
InvokesCallback(uri, case) ==
  uri # "base" /\ case \notin {"optionsAbsent", "retrieveAbsent"}

\* indexSchemasInto(sourceSchemasByURI, schema, baseURI, retrieve): the documents
\* the references need are retrieved; an error of retrieve ends the call.
IndexSchemas ==
  /\ pc = "start"
  /\ \E case \in RetrieveCases :
       LET r == retrieve(case)
       IN /\ NeedsExt \/ case = "optionsAbsent"
          /\ retrieved' = IF ~NeedsExt THEN "no" ELSE IF r.document THEN "document" ELSE case
          /\ pc' = IF NeedsExt /\ ~r.document THEN "thrown" ELSE "indexed"
          /\ error' = IF NeedsExt THEN r.error ELSE "none"
          /\ errorURI' = IF NeedsExt /\ r.names THEN "ext" ELSE ""
          /\ callbackCalls' =
               [u \in DOMAIN callbackCalls |->
                  IF u \in {"base", "ext"} /\ InvokesCallback(u, case)
                    THEN memoize(Requests(u)) ELSE 0]
  /\ UNCHANGED <<schema, pos, heap, dereferencedByURI, placeholders>>
  /\ UNCHANGED <<documents, idxPc, stack, fetched, schemaIndexed, jsonIndexed, references,
                 idxResult>>
  /\ UNCHANGED <<dynVars, valVars>>

\* cloneValues on the root: the cloner is called with kind 'schema' and
\* dereferenceSubschema makes the root's result before its children are cloned.
CloneRoot ==
  /\ pc = "indexed"
  /\ Commit(dereferenceSubschema(State, <<RootURI>>).st)
  /\ pc' = "clone"
  /\ UNCHANGED <<schema, pos, retrieved, error, errorURI>>
  /\ UNCHANGED <<dynVars, idxVars, valVars>>

Advance ==
  /\ pos' = pos + 1
  /\ pc' = IF pos < Len(KeyOrder) THEN "clone"
           ELSE IF retrieved = "document" THEN "cloneExt" ELSE "patch"

\* The cloner on a child of kind 'schema'.
VisitSchema ==
  /\ pc = "clone"
  /\ schema[KeyOrder[pos]].kind = "schema"
  /\ LET key == KeyOrder[pos]
         r == dereferenceSubschema(State, <<U(<<key>>)>>)
         st1 == IF r.reused THEN r.st
                ELSE [r.st EXCEPT !.heap[r.result.id].fields = Overlay(@, LeafFields)]
         n == dereferenceReference(st1, U(<<key>>), <<U(<<key, "not">>)>>)
         st2 == IF r.reused \/ ~schema[key].nest THEN st1
                ELSE SetField(n.st, r.result.id, "not", n.result)
     IN Commit(SetField(st2, 1, key, r.result))
  /\ Advance
  /\ UNCHANGED <<schema, retrieved, error, errorURI>>
  /\ UNCHANGED <<dynVars, idxVars, valVars>>

\* The cloner on a child of kind 'reference' with $ref as its only key.
VisitReference ==
  /\ pc = "clone"
  /\ schema[KeyOrder[pos]].kind = "ref"
  /\ LET key == KeyOrder[pos]
         r == dereferenceReference(State, schema[key].target, <<U(<<key>>)>>)
     IN IF r.diverges
        THEN pc' = "diverged" /\ UNCHANGED <<pos, heap, dereferencedByURI, placeholders>>
        ELSE Commit(SetField(r.st, 1, key, r.result)) /\ Advance
  /\ UNCHANGED <<schema, retrieved, error, errorURI>>
  /\ UNCHANGED <<dynVars, idxVars, valVars>>

\* The cloner on a child of kind 'reference' with sibling keys.
VisitReferenceWithSiblings ==
  /\ pc = "clone"
  /\ schema[KeyOrder[pos]].kind = "refsib"
  /\ LET key == KeyOrder[pos]
         r == dereferenceReferenceWithSiblings(State, key, schema[key].target, <<U(<<key>>)>>)
     IN IF r.diverges
        THEN pc' = "diverged" /\ UNCHANGED <<pos, heap, dereferencedByURI, placeholders>>
        ELSE Commit(SetField(r.st, 1, key, r.result)) /\ Advance
  /\ UNCHANGED <<schema, retrieved, error, errorURI>>
  /\ UNCHANGED <<dynVars, idxVars, valVars>>

\* The loop over the documents of sourceSchemasByURI reaches the root of the
\* retrieved document, a plain schema, after the base document.
CloneExt ==
  /\ pc = "cloneExt"
  /\ LET r == dereferenceSubschema(State, <<ExtURI>>)
     IN Commit(IF r.reused THEN r.st
               ELSE [r.st EXCEPT !.heap[r.result.id].fields = Overlay(@, LeafFields)])
  /\ pc' = "patch"
  /\ UNCHANGED <<schema, pos, retrieved, error, errorURI>>
  /\ UNCHANGED <<dynVars, idxVars, valVars>>

----------------------------------------------------------------------------
(* The patch-up loop: one action per way through one iteration *)

\* placeholders.values().next().value: the first placeholder in insertion order.
HeadPlaceholder == placeholders[1]
HeadMarker == heap[HeadPlaceholder].marker

InPatch == pc = "patch" /\ placeholders # <<>>

\* indirect && isPlaceholder(indirect)
HeadDeferred == HeadMarker.indirect # 0 /\ heap[HeadMarker.indirect].marker.has

\* Object.assign(placeholder, indirect, siblings) with siblings = {...placeholder}:
\* the placeholder's own keys, its marker among them, win.
MergeIndirect(st, p) ==
  LET m == st.heap[p].marker
  IN IF m.indirect = 0 THEN st
     ELSE [st EXCEPT !.heap[p].fields = Overlay(st.heap[m.indirect].fields, @)]

\* delete placeholder[placeholderSymbol]; placeholders.delete(placeholder)
Unmark(st, p) ==
  [st EXCEPT !.heap[p].marker = NoMarker, !.ph = RemoveFrom(st.ph, p)]

\* The iteration up to the lookup of the real value.
Prologue == Unmark(MergeIndirect(State, HeadPlaceholder), HeadPlaceholder)

\* dereferencedByURI[uri], or the fragment evaluated in the dereferenced document.
RealValue(st, uri) ==
  LET direct == Lookup(st.byURI, uri)
      parentSchema == Lookup(st.byURI, AbsoluteURI(uri))
  IN IF Truthy(direct) THEN direct
     ELSE IF Truthy(parentSchema) THEN evaluateFragment(st.heap, uri.ptr, parentSchema)
          ELSE Undefined

HeadRealValue == RealValue(Prologue, HeadMarker.uris[1])

\* uri.slice(0, uri.lastIndexOf('/')): 'base#/a/b' gives 'base#/a', and 'base#/a'
\* gives 'base#', a uri with an empty fragment.
ParentURI(uri) ==
  IF Len(uri.ptr) >= 2 THEN [doc |-> uri.doc, ptr |-> SubSeq(uri.ptr, 1, Len(uri.ptr) - 1)]
  ELSE [doc |-> uri.doc, ptr |-> <<"#">>]

LastKey(uri) == IF uri.ptr = <<>> THEN "" ELSE uri.ptr[Len(uri.ptr)]

\* uris.forEach: overwrite the property of every parent with the primitive;
\* the first uri without a parent throws.
RECURSIVE PatchParents(_, _, _)
PatchParents(st, uris, v) ==
  IF uris = <<>> THEN [st |-> st, thrown |-> FALSE]
  ELSE LET parent == Lookup(st.byURI, ParentURI(Head(uris)))
       IN IF ~Truthy(parent) THEN [st |-> st, thrown |-> TRUE]
          ELSE IF parent.t = "obj"
               THEN PatchParents(SetField(st, parent.id, LastKey(Head(uris)), v), Tail(uris), v)
               ELSE PatchParents(st, Tail(uris), v)

\* continue: the placeholder waits for its indirect placeholder.  Nothing changes
\* and the next iteration takes the same placeholder again.
PatchDeferred ==
  /\ InPatch
  /\ HeadDeferred
  /\ UNCHANGED vars

\* A merge object without uris: merge the indirect value and continue.
PatchIndirect ==
  /\ InPatch
  /\ ~HeadDeferred
  /\ HeadMarker.indirect # 0
  /\ ~HeadMarker.hasUris
  /\ Commit(Prologue)
  /\ UNCHANGED <<schema, pc, pos, retrieved, error, errorURI>>
  /\ UNCHANGED <<dynVars, idxVars, valVars>>

\* The real value is an object: merge its keys under the placeholder's own.
PatchObject ==
  /\ InPatch
  /\ ~HeadDeferred
  /\ HeadMarker.hasUris
  /\ Truthy(HeadRealValue)
  /\ IsObject(HeadRealValue)
  /\ LET st == Prologue
         p == HeadPlaceholder
         v == HeadRealValue
     IN Commit([st EXCEPT !.heap[p] = [fields |-> Overlay(FieldsOf(st.heap, v), st.heap[p].fields),
                                        marker |-> MarkerOf(st.heap, v)]])
  /\ UNCHANGED <<schema, pc, pos, retrieved, error, errorURI>>
  /\ UNCHANGED <<dynVars, idxVars, valVars>>

\* The real value is a primitive: overwrite the property of every parent.
PatchPrimitive ==
  /\ InPatch
  /\ ~HeadDeferred
  /\ HeadMarker.hasUris
  /\ Truthy(HeadRealValue)
  /\ ~IsObject(HeadRealValue)
  /\ LET p == HeadPlaceholder
         st == SetField(Prologue, p, "uris", Arr("uris"))
         r == PatchParents(st, HeadMarker.uris, HeadRealValue)
     IN /\ Commit(r.st)
        /\ pc' = IF r.thrown THEN "thrown" ELSE pc
        /\ error' = IF r.thrown THEN "ParentDoesNotExist" ELSE error
  /\ UNCHANGED <<schema, pos, retrieved, errorURI>>
  /\ UNCHANGED <<dynVars, idxVars, valVars>>

\* throw new Error(`No placeholder at ${uri}`)
PatchThrow ==
  /\ InPatch
  /\ ~HeadDeferred
  /\ HeadMarker.hasUris
  /\ ~Truthy(HeadRealValue)
  /\ Commit(Prologue)
  /\ pc' = "thrown"
  /\ error' = "NoPlaceholderAt"
  /\ UNCHANGED <<schema, pos, retrieved, errorURI>>
  /\ UNCHANGED <<dynVars, idxVars, valVars>>

\* return allResults[baseURI]
Return ==
  /\ pc = "patch"
  /\ placeholders = <<>>
  /\ pc' = "returned"
  /\ UNCHANGED <<schema, pos, heap, dereferencedByURI, placeholders, retrieved, error, errorURI>>
  /\ UNCHANGED <<dynVars, idxVars, valVars>>

Next ==
  \/ IndexSchemas
  \/ CloneRoot
  \/ VisitSchema
  \/ VisitReference
  \/ VisitReferenceWithSiblings
  \/ CloneExt
  \/ PatchDeferred
  \/ PatchIndirect
  \/ PatchObject
  \/ PatchPrimitive
  \/ PatchThrow
  \/ Return

Spec == Init /\ [][Next]_vars

----------------------------------------------------------------------------
(* Properties of dereferenceJSONSchema. *)

\* The result objects a set of result objects reaches through its keys.
ValuesOf(i) == {heap[i].fields[k] : k \in DOMAIN heap[i].fields}
ChildIds(i) == {v.id : v \in {w \in ValuesOf(i) : w.t = "obj"}}
RECURSIVE Closure(_)
Closure(ids) ==
  LET next == ids \cup UNION {ChildIds(i) : i \in ids}
  IN IF next = ids THEN ids ELSE Closure(next)

ReachableFromRoot == Closure({1})

\* What the result holds at a location: the pointer evaluated from the root of
\* the document's result.
ResultAt(uri) ==
  IF uri.doc = "ext" THEN Lookup(dereferencedByURI, ExtURI)
  ELSE evaluateFragment(heap, uri.ptr, Obj(1))

\* What the result holds at the site of the child k of the root.
Site(k) == IF k \in DOMAIN heap[1].fields THEN heap[1].fields[k] ELSE Undefined

\* The clone pass has passed the child k of the root.
Visited(k) ==
  \/ pc \in {"cloneExt", "patch", "returned"}
  \/ pc = "clone" /\ \E i \in 1..(pos - 1) : KeyOrder[i] = k

\* C1: whenever dereferenceJSONSchema returns, the placeholder set is empty and
\* no node reachable from the returned root carries the placeholder marker.
C1_ReturnsWithoutPlaceholders ==
  pc = "returned" =>
    /\ placeholders = <<>>
    /\ \A i \in ReachableFromRoot : ~heap[i].marker.has

\* C2: in the returned graph every pure reference site holds the node placed at
\* its target's own location, so two sites with the same target hold the same
\* node, wherever the target comes in the traversal.
C2_SameTargetSameNode ==
  pc = "returned" =>
    \A j \in KeySet :
      schema[j].kind = "ref" =>
        /\ Site(j) = ResultAt(schema[j].target)
        /\ \A k \in KeySet :
             schema[k].kind = "ref" /\ schema[k].target = schema[j].target => Site(k) = Site(j)

\* Every reference of the schema is a pure reference to the root or to the
\* schema it sits in.
AncestorRefsOnly == \A k \in KeySet : schema[k].kind = "schema" \/ schema[k] = Ref(RootURI)

\* C3: a pure reference to the root holds the root's result node and a pure
\* reference to the schema it sits in holds that schema's result node, from the
\* moment the site is cloned; a schema whose references are all of this kind
\* never throws, never loops while following references and comes to the
\* patch-up loop with no placeholder left, so that the call returns.
C3_AncestorReferenceIsCycle ==
  /\ \A k \in KeySet :
       Visited(k) /\ schema[k] = Ref(RootURI) => Site(k) = Obj(1)
  /\ \A k \in KeySet :
       Visited(k) /\ schema[k] = Leaf(TRUE) =>
         Site(k).t = "obj" /\ heap[Site(k).id].fields["not"] = Site(k)
  /\ AncestorRefsOnly =>
       /\ pc \notin {"thrown", "diverged"}
       /\ pc = "patch" => placeholders = <<>>

\* C3 witness: a returned graph in which root.a is the root itself and root.b
\* contains itself.
C3_Witness ==
  /\ pc = "returned"
  /\ AncestorRefsOnly
  /\ schema["a"] = Ref(RootURI)
  /\ schema["b"] = Leaf(TRUE)
  /\ Site("a") = Obj(1)
  /\ 1 \in ChildIds(1)
  /\ Site("b").id \in ChildIds(Site("b").id)

\* The placeholder an unresolved placeholder waits for, 0 when it waits for none.
IndirectLink(i) ==
  IF i # 0 /\ heap[i].marker.has /\ heap[i].marker.indirect # 0
       /\ heap[heap[i].marker.indirect].marker.has
    THEN heap[i].marker.indirect
    ELSE 0

RECURSIVE IndirectAfter(_, _)
IndirectAfter(i, n) == IF n = 0 THEN i ELSE IndirectLink(IndirectAfter(i, n - 1))

\* The indirect links lead from the placeholder back to it.
OnIndirectCycle(i) == \E n \in 1..Len(heap) : IndirectAfter(i, n) = i
IndirectAcyclic == \A i \in 1..Len(heap) : ~OnIndirectCycle(i)

\* C4: when the indirect links form no cycle, a pass of the patch-up loop does
\* not leave the loop where it was: the placeholder it takes is not one that is
\* deferred again and again while the others wait.  (A pass that defers leaves
\* every variable unchanged, so the next pass takes the same placeholder.)
C4_AcyclicDeferralProgresses == InPatch /\ IndirectAcyclic => ~HeadDeferred

\* C5: when the indirect links of the placeholder at the head of the set are
\* circular, the loop does not defer it forever: no pass finds it deferred and
\* leaves every variable as it was.
C5_CircularChainIsFatal ==
  InPatch /\ OnIndirectCycle(HeadPlaceholder) => ~HeadDeferred

\* The key sets of the merge of a reference with siblings.
SiblingKeys == {"title", "not"}

\* C6: in the returned graph the node of a reference with siblings has every
\* sibling key with the sibling's value and every other key of the dereferenced
\* target with the target's value.
C6_MergedNodeHasSiblingsAndTarget ==
  pc = "returned" =>
    \A k \in KeySet :
      schema[k].kind = "refsib" =>
        LET node == FieldsOf(heap, Site(k))
            target == FieldsOf(heap, ResultAt(schema[k].target))
        IN /\ \A j \in SiblingKeys : j \in DOMAIN node /\ node[j] = SiblingFields(k)[j]
           /\ \A j \in DOMAIN target \ SiblingKeys : j \in DOMAIN node /\ node[j] = target[j]

\* The only reference of the schema is a reference with siblings to its own
\* location.
SelfReferenceOnly ==
  /\ \E k \in KeySet : schema[k] = RefSib(U(<<k>>))
  /\ \A k \in KeySet : schema[k] = RefSib(U(<<k>>)) \/ schema[k] = Leaf(FALSE)

\* C7: a reference with siblings to its own location dereferences, without
\* error and without a pass of the patch-up loop that repeats forever, to a
\* node holding exactly its sibling keys.
C7_SelfReferenceYieldsSiblings ==
  SelfReferenceOnly =>
    /\ pc \notin {"thrown", "diverged"}
    /\ ~(InPatch /\ HeadDeferred)
    /\ pc = "returned" =>
         \A k \in KeySet :
           schema[k].kind = "refsib" => FieldsOf(heap, Site(k)) = SiblingFields(k)

\* C9: no object reachable from the returned root has a $ref key, the objects
\* inside sibling values included.
C9_NoReferenceNodeReturned ==
  pc = "returned" =>
    \A i \in ReachableFromRoot :
      /\ "$ref" \notin DOMAIN heap[i].fields
      /\ \A v \in ValuesOf(i) : "$ref" \notin DOMAIN FieldsOf(heap, v)

\* C10: when the other document is needed and cannot be produced, the call
\* ends with an error that names its uri, and no graph is built on a missing
\* document.
C10_RetrievalFailureNamesURI ==
  /\ retrieved \notin {"no", "document"} => pc = "thrown" /\ errorURI = "ext"
  /\ pc \notin {"start", "thrown"} /\ NeedsExt => retrieved = "document"

\* The target designates no value of the document: a key the root does not
\* have, or a key a plain subschema does not have.
DesignatesNoValue(t) ==
  \/ t = U(<<"zz">>)
  \/ /\ t.doc = "base"
     /\ Len(t.ptr) = 2
     /\ schema[t.ptr[1]].kind = "schema"
     /\ t.ptr[2] \notin DOMAIN LeafFields
     /\ ~(t.ptr[2] = "not" /\ schema[t.ptr[1]].nest)

HasMissingTarget ==
  \E k \in KeySet : schema[k].kind # "schema" /\ DesignatesNoValue(schema[k].target)

\* C11: when the target of some reference designates no value, no graph is
\* returned and the call ends by throwing: it is never left in a pass of the
\* patch-up loop that repeats forever nor in the loop that follows references.
C11_MissingTargetThrows ==
  HasMissingTarget =>
    /\ pc # "returned"
    /\ pc # "diverged"
    /\ ~(InPatch /\ HeadDeferred)

\* The reference under the key is pure and its target is a primitive: a
\* keyword value of a plain schema, the falsy "flag" included.
TargetsPrimitive(k) ==
  /\ schema[k].kind = "ref"
  /\ schema[k].target.doc = "base"
  /\ Len(schema[k].target.ptr) = 2
  /\ schema[schema[k].target.ptr[1]].kind = "schema"
  /\ schema[k].target.ptr[2] \in DOMAIN LeafFields
PrimitiveAt(k) == LeafFields[schema[k].target.ptr[2]]
OnlyPrimitiveReferences ==
  /\ \E k \in KeySet : TargetsPrimitive(k)
  /\ \A k \in KeySet : (schema[k].kind = "schema" /\ ~schema[k].nest) \/ TargetsPrimitive(k)

\* C18: with pure references to primitives, falsy ones included, the call
\* succeeds and the property of the parent at every reference site holds the
\* primitive on return; it throws only for a parent that does not exist.
C18_PrimitiveTargetIsPatched ==
  OnlyPrimitiveReferences =>
    /\ pc = "thrown" => error = "ParentDoesNotExist"
    /\ pc = "returned" => \A k \in KeySet : TargetsPrimitive(k) => heap[1].fields[k] = PrimitiveAt(k)

\* The value is a node carrying a sibling key of the reference under k with
\* the sibling's value.  No target of the model defines such a value: the
\* title of a plain schema is another string and its "not" another object.
HasSiblingOf(k, v) ==
  /\ v.t = "obj"
  /\ \E j \in SiblingKeys :
       j \in DOMAIN heap[v.id].fields /\ heap[v.id].fields[j] = SiblingFields(k)[j]

\* The reference with siblings under k has a target of its own: the root or a
\* plain schema under another key.
HasOwnTarget(k) ==
  /\ schema[k].kind = "refsib"
  /\ \/ schema[k].target = RootURI
     \/ \E j \in KeySet \ {k} : schema[k].target = U(<<j>>) /\ schema[j].kind = "schema"

\* C19: in the returned graph the node of a reference with siblings is not
\* the node of its target, and its sibling keys are neither on the node of the
\* target nor at a pure reference site of the same target.
C19_SiblingsStayOnTheirNode ==
  pc = "returned" =>
    \A k \in KeySet :
      HasOwnTarget(k) =>
        /\ Site(k) # ResultAt(schema[k].target)
        /\ ~HasSiblingOf(k, ResultAt(schema[k].target))
        /\ \A j \in KeySet : schema[j] = Ref(schema[k].target) => ~HasSiblingOf(k, Site(j))

\* A returned graph with a reference with siblings and a pure reference to
\* the same plain schema.
C19_Witness ==
  /\ pc = "returned"
  /\ \E k, j \in KeySet :
       /\ HasOwnTarget(k)
       /\ schema[k].target # RootURI
       /\ schema[j] = Ref(schema[k].target)
       /\ Site(k).t = "obj"
       /\ HasSiblingOf(k, Site(k))

\* The returned graph holds a source object: a value stored as it is.
HoldsSourceNode == \E i \in ReachableFromRoot : \E v \in ValuesOf(i) : v.t = "src"

\* C21: dereferenceJSONSchema never writes to the source schema, whether it
\* returns or throws, and no node of the returned graph is a node of the
\* source.
C21_SourceUntouchedAndDisjoint ==
  /\ [][schema' = schema]_vars
  /\ [](pc = "returned" => ~HoldsSourceNode)

----------------------------------------------------------------------------
(* Part 2: SchemaIndex.dereferenceDynamicReference.

   The index holds two resources besides the places of the path: "base", the
   resource the $dynamicRef is written in, and "ext", a resource embedding it.
   index.fragment tells how the static target of the $dynamicRef is named:
   "pointer" (a JSON pointer fragment), "dynamic" (the name "node", declared
   by the target as $dynamicAnchor) or "static" (the name "node", declared by
   the target as $anchor only).  index.extAnchor tells what "ext#node" is:
   nothing ("none"), a node declaring $dynamicAnchor "node" ("dynamic") or a
   node declaring only $anchor "node" ("static").

   A step of schemaPath is described by what its JSON pointer evaluates to on
   an object candidate: an object node, a boolean schema, or the string of a
   $ref (the pointer is then '/$ref'), for which find returns a node or
   nothing.  The string of a $ref is resolved against the base URI of the
   $dynamicRef: in a step of kind "ref" that is the base URI of the node
   carrying the $ref as well, or the $ref is absolute; in a step of kind
   "refElsewhere" the node carrying the $ref has another base URI, the $ref is
   relative, and the uri find is called with is not the uri of the target of
   the $ref: the step is described by what find returns for it. *)

MaxPathLen == 2

Resources == {"", "base", "ext"}
AnchorNames == {"", "node", "other"}
Steps ==
  [kind : {"object"}, found : {TRUE}, id : Resources, dyn : AnchorNames]
    \cup [kind : {"boolean"}, found : {TRUE}, id : {""}, dyn : {""}]
    \cup [kind : {"ref"}, found : {TRUE}, id : Resources, dyn : AnchorNames]
    \cup [kind : {"ref"}, found : {FALSE}, id : {""}, dyn : {""}]
    \cup [kind : {"refElsewhere"}, found : {TRUE}, id : {""}, dyn : {"", "node"}]
    \cup [kind : {"refElsewhere"}, found : {FALSE}, id : {""}, dyn : {""}]
RefKinds == {"ref", "refElsewhere"}
Indexes == [fragment : {"pointer", "dynamic", "static"}, extAnchor : {"none", "dynamic", "static"}]

\* A name is declared once in a resource: the root of "ext" declaring
\* $dynamicAnchor "node" is what "ext#node" finds, and likewise for "base".
Consistent(ix, path) ==
  \A i \in 1..Len(path) :
    path[i].dyn = "node" =>
      /\ path[i].id = "ext" => ix.extAnchor = "dynamic"
      /\ path[i].id = "base" => ix.fragment # "static"

Paths == UNION {[1..n -> Steps] : n \in 0..MaxPathLen}

InitDynamic ==
  /\ index \in Indexes
  /\ schemaPath \in Paths
  /\ Consistent(index, schemaPath)
  /\ dynPc = "called"
  /\ dynPos = 1
  /\ candidate = NoValue
  /\ dynResult = NoValue
  /\ IndexIdle
  /\ ValidationIdle
  /\ schema = [k \in KeySet |-> Leaf(FALSE)]
  /\ pc = "off"
  /\ pos = 1
  /\ heap = <<>>
  /\ dereferencedByURI = [u \in IndexedURIs |-> Undefined]
  /\ placeholders = <<>>
  /\ retrieved = "no"
  /\ error = "none"
  /\ errorURI = ""

\* this.find(resolvedURI): the static target of the $dynamicRef.
dereferencedSchema ==
  Node("static", 0, "", IF index.fragment = "dynamic" THEN "node" ELSE "")

\* The node a step of the path stands for.  The root of a resource that
\* declares the name is the node the resource indexes under that name.
StepNode(i) ==
  LET step == schemaPath[i]
  IN IF step.id = "base" /\ step.dyn = "node" /\ index.fragment = "dynamic"
       THEN Node("static", 0, "base", "node")
     ELSE IF step.id = "ext" /\ step.dyn = "node" THEN Node("ext", 0, "ext", "node")
     ELSE IF step.kind = "refElsewhere" THEN Node("elsewhere", i, step.id, step.dyn)
     ELSE Node("path", i, step.id, step.dyn)

\* evaluateJSONPointer(jsonPointer, candidate): nothing is found inside a
\* non-object.
evaluateJSONPointer(i, c) ==
  IF c.t # "node" THEN NoValue
  ELSE IF schemaPath[i].kind = "object" THEN StepNode(i)
  ELSE IF schemaPath[i].kind = "boolean" THEN NonObject("boolean")
  ELSE NonObject("string")

\* this.find(anchorURI) for `#${name}` resolved against the resource id.
findAnchor(id, name) ==
  IF name # "node" THEN NoValue
  ELSE IF id = "base" THEN dereferencedSchema
  ELSE IF id = "ext" /\ index.extAnchor = "dynamic" THEN Node("ext", 0, "", "node")
  ELSE IF id = "ext" /\ index.extAnchor = "static" THEN Node("ext", 0, "", "")
  ELSE NoValue

\* '$dynamicAnchor' in c && c.$dynamicAnchor === dereferencedSchema.$dynamicAnchor
DeclaresAnyDynamicAnchor(c) == c.t = "node" /\ c.dyn # ""
DeclaresDynamicAnchor(c) == c.t = "node" /\ c.dyn # "" /\ c.dyn = dereferencedSchema.dyn

AcceptsFoundAnchor(candidateAnchor) == candidateAnchor.t = "node"

\* Lines 118-126: what find gave for the anchor uri is taken only if it is an
\* object declaring the $dynamicAnchor of the static target.
AcceptsCandidateAnchor(candidateAnchor) ==
  candidateAnchor.t = "node" /\ DeclaresDynamicAnchor(candidateAnchor)

DynamicStartWalks ==
  /\ dynPc = "called"
  /\ dynPc' = "walk" /\ dynResult' = dynResult /\ candidate' = Node("root", 0, "", "")
  /\ UNCHANGED <<index, schemaPath, dynPos>>
  /\ UNCHANGED <<derefVars, idxVars, valVars>>

\* Lines 86-95: the static target, returned at once for a JSON pointer fragment.
DynamicStart ==
  /\ dynPc = "called"
  /\ IF index.fragment = "pointer"
       THEN dynPc' = "returned" /\ dynResult' = dereferencedSchema /\ candidate' = candidate
       ELSE dynPc' = "walk" /\ dynResult' = dynResult /\ candidate' = Node("root", 0, "", "")
  /\ UNCHANGED <<index, schemaPath, dynPos>>
  /\ UNCHANGED <<derefVars, idxVars, valVars>>

\* One pass of the loop over schemaPath.
DynamicStep ==
  /\ dynPc = "walk"
  /\ dynPos <= Len(schemaPath)
  /\ LET evaluated == evaluateJSONPointer(dynPos, candidate)
         c == IF schemaPath[dynPos].kind \in RefKinds /\ evaluated.t = "string"
                THEN IF schemaPath[dynPos].found THEN StepNode(dynPos) ELSE NoValue
                ELSE evaluated
         candidateAnchor == findAnchor(c.id, dereferencedSchema.dyn)
         winner == IF c.t # "node" THEN NoValue
                   ELSE IF DeclaresDynamicAnchor(c) THEN c
                   ELSE IF c.id # "" /\ AcceptsCandidateAnchor(candidateAnchor) THEN candidateAnchor
                   ELSE NoValue
     IN /\ candidate' = c
        /\ IF winner.t = "node"
             THEN dynPc' = "returned" /\ dynResult' = winner /\ dynPos' = dynPos
             ELSE dynPc' = dynPc /\ dynResult' = dynResult /\ dynPos' = dynPos + 1
  /\ UNCHANGED <<index, schemaPath>>
  /\ UNCHANGED <<derefVars, idxVars, valVars>>

DynamicFallbackNothing ==
  /\ dynPc = "walk"
  /\ dynPos > Len(schemaPath)
  /\ dynPc' = "returned"
  /\ dynResult' = NoValue
  /\ UNCHANGED <<index, schemaPath, dynPos, candidate>>
  /\ UNCHANGED <<derefVars, idxVars, valVars>>

\* Line 131: no step matched.
DynamicFallback ==
  /\ dynPc = "walk"
  /\ dynPos > Len(schemaPath)
  /\ dynPc' = "returned"
  /\ dynResult' = dereferencedSchema
  /\ UNCHANGED <<index, schemaPath, dynPos, candidate>>
  /\ UNCHANGED <<derefVars, idxVars, valVars>>

NextDynamic == DynamicStart \/ DynamicStep \/ DynamicFallback

SpecDynamic == InitDynamic /\ [][NextDynamic]_vars

----------------------------------------------------------------------------
(* Properties of dereferenceDynamicReference. *)

SameNode(v, w) == v.t = "node" /\ w.t = "node" /\ v.name = w.name /\ v.at = w.at

\* The step is reached with an object candidate and yields an object.
IsObjectStep(step) == step.kind = "object" \/ (step.kind \in RefKinds /\ step.found)
ObjectAt(i) == \A j \in 1..i : IsObjectStep(schemaPath[j])

\* The node of the step declares $dynamicAnchor "node" itself.
DeclaresAt(i) == ObjectAt(i) /\ schemaPath[i].dyn = "node"

\* The node of the step declares an $id under which "node" is indexed as the
\* $dynamicAnchor of a node.
ResourceDeclaresAt(i) ==
  /\ ObjectAt(i)
  /\ \/ schemaPath[i].id = "base"
     \/ schemaPath[i].id = "ext" /\ index.extAnchor = "dynamic"

First(S) == CHOOSE i \in S : \A j \in S : i <= j

\* The node the resource of the step indexes under the name.
ResourceNode(i) == IF schemaPath[i].id = "ext" THEN Node("ext", 0, "", "node") ELSE dereferencedSchema

EmbeddingWins ==
  /\ Len(schemaPath) >= 1
  /\ schemaPath[1].kind = "object"
  /\ schemaPath[1].id = "ext"
  /\ index.extAnchor = "dynamic"
OnlyBase ==
  \A i \in 1..Len(schemaPath) :
    /\ schemaPath[i].kind = "object"
    /\ schemaPath[i].id = "base" \/ (schemaPath[i].id = "" /\ schemaPath[i].dyn # "node")

\* C8 (as the code has it): when the static target is named by the anchor
\* "node", the walk stops at the first step, outermost first, whose node either
\* declares $dynamicAnchor "node", and returns that node, or declares an $id
\* under which a node declaring $dynamicAnchor "node" is indexed, and returns
\* that indexed node; with no such step it returns the static target.  So a path
\* entering through the embedding schema returns the embedding schema's
\* definition and a path of the base schema alone returns the static target.
C8_FirstDynamicScopeWins ==
  dynPc = "returned" /\ index.fragment # "pointer" =>
    LET matches == {i \in 1..Len(schemaPath) : DeclaresAt(i) \/ ResourceDeclaresAt(i)}
    IN /\ index.fragment = "static" => SameNode(dynResult, dereferencedSchema)
       /\ index.fragment = "dynamic" /\ matches = {} => SameNode(dynResult, dereferencedSchema)
       /\ index.fragment = "dynamic" /\ matches # {} =>
            IF DeclaresAt(First(matches))
              THEN SameNode(dynResult, StepNode(First(matches)))
              ELSE SameNode(dynResult, ResourceNode(First(matches)))
       /\ index.fragment = "dynamic" /\ EmbeddingWins => dynResult.name = "ext"
       /\ index.fragment = "dynamic" /\ OnlyBase => dynResult.name = "static"

\* C8 witness: the path enters through the root of the embedding schema and
\* goes on to the root of the base schema, which declares the anchor itself;
\* the embedding schema's definition is returned.
C8_Witness ==
  /\ dynPc = "returned"
  /\ index = [fragment |-> "dynamic", extAnchor |-> "dynamic"]
  /\ Len(schemaPath) = 2
  /\ schemaPath[1] = [kind |-> "object", found |-> TRUE, id |-> "ext", dyn |-> ""]
  /\ schemaPath[2] = [kind |-> "ref", found |-> TRUE, id |-> "base", dyn |-> "node"]
  /\ dynResult.name = "ext"

\* C8 (as stated): the node returned is the first node on the path that
\* declares $dynamicAnchor "node" itself.
C8_FirstDeclaringPathNode ==
  dynPc = "returned" /\ index.fragment = "dynamic" =>
    LET declaring == {i \in 1..Len(schemaPath) : DeclaresAt(i)}
    IN declaring # {} => SameNode(dynResult, StepNode(First(declaring)))

\* C15: when the fragment of the resolved target uri is a JSON pointer,
\* dereferenceDynamicReference returns what dereferenceReference returns for
\* that uri, the value find gives, whatever the schema path is, and no step
\* of the path was evaluated.
C15_PointerFragmentIsPlainReference ==
  dynPc = "returned" /\ index.fragment = "pointer" =>
    /\ dynResult = dereferencedSchema
    /\ candidate = NoValue
    /\ dynPos = 1

\* The call returned for a pointer fragment although the path goes through
\* nodes that declare $dynamicAnchor and the $id of the embedding resource.
C15_Witness ==
  /\ dynPc = "returned"
  /\ index = [fragment |-> "pointer", extAnchor |-> "dynamic"]
  /\ Len(schemaPath) = 2
  /\ schemaPath[1].id = "ext"
  /\ schemaPath[2].dyn = "node"

\* No node of the path declares $dynamicAnchor "node" and no $id of the path
\* names a resource in which a node declaring it is indexed.
NoMatch ==
  \A i \in 1..Len(schemaPath) :
    /\ schemaPath[i].dyn # "node"
    /\ ~(schemaPath[i].id = "ext" /\ index.extAnchor = "dynamic")
    /\ ~(schemaPath[i].id = "base" /\ index.fragment = "dynamic")

\* C16: when the target is named by an anchor and nothing on the path
\* matches, the walk goes through every step of the path and the call returns
\* the static target.
C16_NoMatchFallsBack ==
  dynPc = "returned" /\ index.fragment # "pointer" /\ NoMatch =>
    /\ dynResult = dereferencedSchema
    /\ dynPos = Len(schemaPath) + 1

\* The walk went past a node declaring another $dynamicAnchor and the $id of
\* a resource in which "node" is a static $anchor, then fell back.
C16_Witness ==
  /\ dynPc = "returned"
  /\ index = [fragment |-> "dynamic", extAnchor |-> "static"]
  /\ NoMatch
  /\ Len(schemaPath) = 2
  /\ schemaPath[1].id = "ext"
  /\ schemaPath[2].dyn = "other"
  /\ dynResult = dereferencedSchema

\* The step about to be taken reaches a node whose $id names the resource
\* "ext", in which "node" is a static $anchor only, and the node does not
\* declare the $dynamicAnchor itself.
AtStaticAnchorResource ==
  /\ dynPc = "walk"
  /\ dynPos <= Len(schemaPath)
  /\ index.fragment = "dynamic"
  /\ index.extAnchor = "static"
  /\ ObjectAt(dynPos)
  /\ schemaPath[dynPos].id = "ext"
  /\ schemaPath[dynPos].dyn # "node"

\* C17: the node found at id#D is returned only if it declares
\* $dynamicAnchor D: the node that "ext#node" finds is the result only when it
\* declares $dynamicAnchor "node", and when "node" is a static $anchor of
\* "ext" the step returns nothing and the walk goes on to the next step.
C17_StaticAnchorNeverMatches ==
  /\ [](dynPc = "returned" /\ dynResult.name = "ext" /\ dynResult.id = ""
          => index.extAnchor = "dynamic" /\ dynResult.dyn = "node")
  /\ [][AtStaticAnchorResource => dynPc' = "walk" /\ dynPos' = dynPos + 1]_vars

\* The walk went past the $id of "ext", where "node" is a static $anchor, and
\* a later step decided the result.
C17_Witness ==
  /\ dynPc = "returned"
  /\ index = [fragment |-> "dynamic", extAnchor |-> "static"]
  /\ Len(schemaPath) = 2
  /\ schemaPath[1] = [kind |-> "object", found |-> TRUE, id |-> "ext", dyn |-> ""]
  /\ schemaPath[2].dyn = "node"
  /\ dynResult.name = "path"
  /\ dynResult.at = 2

\* The target of the $ref carried by the node of the step, resolved against
\* the base URI in effect at that node.  In a step of kind "refElsewhere" it
\* is a node the uri resolved against the base URI of the $dynamicRef does not
\* name.
SubReferenceTarget(i) ==
  IF schemaPath[i].kind = "refElsewhere" THEN Node("target", i, "", "") ELSE StepNode(i)
SubReferenceTargetExists(i) == schemaPath[i].kind = "refElsewhere" \/ schemaPath[i].found

\* C20: a step that reaches the string of a $ref resolves it against the base
\* URI of the node carrying it and the walk continues from the target of the
\* $ref.
C20_SubReferenceIsFollowed ==
  [][DynamicStep /\ candidate.t = "node" /\ schemaPath[dynPos].kind \in RefKinds
       /\ SubReferenceTargetExists(dynPos)
     => SameNode(candidate', SubReferenceTarget(dynPos))]_vars


----------------------------------------------------------------------------
(* Part 3: SchemaIndex.addRootSchema, addSchemas, addJSONReferences and
   dereferenceReference.

   There are the documents "base" (the root schema) and "ext", and the uri
   "gone" from which nothing can be retrieved.  A document is the list of its
   reference nodes.  A reference node sits where a schema may sit (json FALSE)
   or anywhere else (json TRUE), and resolves to a document uri with a
   fragment: none; "location", the JSON pointer of a subschema; "anchor", a
   declared anchor; "unindexedPointer", the JSON pointer of an object that is
   no schema location; "missingPointer", a JSON pointer to nothing;
   "missingAnchor", an anchor nothing declares. *)

MaxRefs == 2
MaxCalls == 2

DocNames == {"base", "ext"}
Fragments ==
  {"none", "location", "anchor", "unindexedPointer", "missingPointer", "missingAnchor"}
ReferenceNodes ==
  [json : BOOLEAN, to : DocNames, frag : Fragments]
    \cup [json : BOOLEAN, to : {"gone"}, frag : {"none"}]
RefLists == UNION {[1..n -> ReferenceNodes] : n \in 0..MaxRefs}
DocumentSets ==
  {d \in [DocNames -> RefLists] : Len(d["base"]) + Len(d["ext"]) <= MaxRefs}

\* isJSONPointer(fragment), for a fragment that is not empty
IsJSONPointerFragment(f) == f \in {"location", "unindexedPointer", "missingPointer"}

IndexURI(doc, frag) == [doc |-> doc, frag |-> frag]
Whole(doc) == IndexURI(doc, "none")

\* info.resolvedURI of the reference node at position r = [doc, i]
ReferenceInfo(r) == documents[r.doc][r.i]
ResolvedURI(r) == IndexURI(ReferenceInfo(r).to, ReferenceInfo(r).frag)

isURIIndexedNever(uri) == FALSE

\* this.isURIIndexed(uri): a document the DocumentIndex holds, or a uri the
\* schema content index registered while it indexed a root.
isURIIndexed(uri) ==
  IF uri.frag = "none" THEN uri.doc \in fetched
  ELSE IF uri.frag = "location" THEN Whole(uri.doc) \in schemaIndexed \/ uri \in schemaIndexed
  ELSE IF uri.frag = "anchor" THEN Whole(uri.doc) \in schemaIndexed
  ELSE IF uri.frag = "unindexedPointer" THEN uri \in schemaIndexed
  ELSE FALSE

\* The reference nodes of a document in the order a traversal meets them.
Positions(doc) == [i \in 1..Len(documents[doc]) |-> [doc |-> doc, i |-> i]]

\* schemaContentIndex.addContentFromRoot: a root that is indexed already is
\* skipped; otherwise the references found where schemas sit.
FoundSchemaReferences(root) ==
  IF root \in schemaIndexed \/ Whole(root.doc) \in schemaIndexed \/ root.frag # "none"
    THEN <<>>
    ELSE SelectSeq(Positions(root.doc), LAMBDA r : ~ReferenceInfo(r).json)

\* jsonReferenceContentIndex.addContentFromRoot: the reference nodes that are
\* not indexed as schemas (shouldIndexObject).
FoundJSONReferences(root) ==
  IF root \in jsonIndexed \/ root.frag # "none"
    THEN <<>>
    ELSE SelectSeq(Positions(root.doc),
                   LAMBDA r : ReferenceInfo(r).json \/ Whole(root.doc) \notin schemaIndexed)

Call(op, root) == [op |-> op, root |-> root, refs |-> <<>>]
Loop(op, root, refs) == [op |-> op, root |-> root, refs |-> refs]

InitIndex ==
  /\ documents \in DocumentSets
  /\ idxPc = "start"
  /\ stack = <<>>
  /\ fetched = {}
  /\ schemaIndexed = {}
  /\ jsonIndexed = {}
  /\ references = {}
  /\ callbackCalls = [d \in {"base", "ext", "gone"} |-> 0]
  /\ idxResult = NoResult
  /\ ValidationIdle
  /\ index = [fragment |-> "pointer", extAnchor |-> "none"]
  /\ schemaPath = <<>>
  /\ dynPc = "off"
  /\ dynPos = 1
  /\ candidate = NoValue
  /\ dynResult = NoValue
  /\ schema = [k \in KeySet |-> Leaf(FALSE)]
  /\ pc = "off"
  /\ pos = 1
  /\ heap = <<>>
  /\ dereferencedByURI = [u \in IndexedURIs |-> Undefined]
  /\ placeholders = <<>>
  /\ retrieved = "no"
  /\ error = "none"
  /\ errorURI = ""

\* addRootSchema: addDocument(rootSchema, baseURI), then addSchemas and
\* addJSONReferences of the root.
AddRootSchema ==
  /\ idxPc = "start"
  /\ idxPc' = "indexing"
  /\ fetched' = {"base"}
  /\ stack' = <<Call("addSchemas", Whole("base")), Call("addJSONReferences", Whole("base"))>>
  /\ UNCHANGED <<documents, schemaIndexed, jsonIndexed, references, callbackCalls, idxResult>>
  /\ UNCHANGED <<derefVars, dynVars, valVars>>

\* The first lines of addSchemas: index the content, record the references.
CallAddSchemas ==
  /\ idxPc = "indexing"
  /\ stack # <<>>
  /\ Head(stack).op = "addSchemas"
  /\ LET root == Head(stack).root
         found == FoundSchemaReferences(root)
     IN /\ schemaIndexed' = schemaIndexed \cup {root}
        /\ references' = references \cup Range(found)
        /\ stack' = <<Loop("schemaLoop", root, found)>> \o Tail(stack)
  /\ UNCHANGED <<documents, idxPc, fetched, jsonIndexed, callbackCalls, idxResult>>
  /\ UNCHANGED <<derefVars, dynVars, valVars>>

\* The first lines of addJSONReferences.
CallAddJSONReferences ==
  /\ idxPc = "indexing"
  /\ stack # <<>>
  /\ Head(stack).op = "addJSONReferences"
  /\ LET root == Head(stack).root
         found == FoundJSONReferences(root)
     IN /\ jsonIndexed' = jsonIndexed \cup {root}
        /\ references' = references \cup Range(found)
        /\ stack' = <<Loop("jsonLoop", root, found)>> \o Tail(stack)
  /\ UNCHANGED <<documents, idxPc, fetched, schemaIndexed, callbackCalls, idxResult>>
  /\ UNCHANGED <<derefVars, dynVars, valVars>>


\* this.addDocumentWithURI(absoluteURI): the retrieval callback is asked for
\* the document, which is added to the documents of the index.  Nothing can
\* be retrieved from "gone": the failure ends addRootSchema.
addDocumentWithURI(to) ==
  /\ callbackCalls' = [callbackCalls EXCEPT ![to] = IF @ < MaxCalls THEN @ + 1 ELSE @]
  /\ fetched' = IF to \in DocNames THEN fetched \cup {to} ELSE fetched
  /\ idxPc' = IF to \in DocNames THEN idxPc ELSE "thrown"

\* What the loop body of addSchemas calls for a reference whose document is at
\* hand: evaluateJSONPointer finds nothing for a pointer to nothing.
SchemaCalls(uri) ==
  IF IsJSONPointerFragment(uri.frag)
    THEN IF uri.frag = "missingPointer" THEN <<>>
         ELSE <<Call("addSchemas", uri), Call("addJSONReferences", uri)>>
    ELSE <<Call("addSchemas", Whole(uri.doc)), Call("addJSONReferences", Whole(uri.doc))>>

JSONCalls(uri) ==
  IF IsJSONPointerFragment(uri.frag)
    THEN IF uri.frag = "missingPointer" THEN <<>>
         ELSE <<Call("addJSONReferences", uri)>>
    ELSE <<Call("addJSONReferences", Whole(uri.doc))>>

Rest == [Head(stack) EXCEPT !.refs = Tail(@)]

\* One turn of the second forEach of addSchemas.
SchemaLoopStep ==
  /\ idxPc = "indexing"
  /\ stack # <<>>
  /\ Head(stack).op = "schemaLoop"
  /\ Head(stack).refs # <<>>
  /\ LET uri == ResolvedURI(Head(Head(stack).refs))
     IN IF isURIIndexed(uri)
          THEN /\ stack' = <<Rest>> \o Tail(stack)
               /\ UNCHANGED <<idxPc, fetched, callbackCalls>>
        ELSE IF isURIIndexed(Whole(uri.doc))
          THEN /\ stack' = SchemaCalls(uri) \o <<Rest>> \o Tail(stack)
               /\ UNCHANGED <<idxPc, fetched, callbackCalls>>
        ELSE /\ addDocumentWithURI(uri.doc)
             /\ stack' = IF uri.doc \in DocNames
                            THEN SchemaCalls(uri) \o <<Rest>> \o Tail(stack)
                          ELSE stack
  /\ UNCHANGED <<documents, schemaIndexed, jsonIndexed, references, idxResult>>
  /\ UNCHANGED <<derefVars, dynVars, valVars>>

\* One turn of the second forEach of addJSONReferences: a document that is
\* indexed already is not looked up, and the reference is left alone.
JSONLoopStep ==
  /\ idxPc = "indexing"
  /\ stack # <<>>
  /\ Head(stack).op = "jsonLoop"
  /\ Head(stack).refs # <<>>
  /\ LET uri == ResolvedURI(Head(Head(stack).refs))
     IN IF isURIIndexed(uri) \/ isURIIndexed(Whole(uri.doc))
          THEN /\ stack' = <<Rest>> \o Tail(stack)
               /\ UNCHANGED <<idxPc, fetched, callbackCalls>>
        ELSE /\ addDocumentWithURI(uri.doc)
             /\ stack' = IF uri.doc \in DocNames
                            THEN JSONCalls(uri) \o <<Rest>> \o Tail(stack)
                          ELSE stack
  /\ UNCHANGED <<documents, schemaIndexed, jsonIndexed, references, idxResult>>
  /\ UNCHANGED <<derefVars, dynVars, valVars>>

\* A forEach that has no reference left returns to its caller.
LoopReturn ==
  /\ idxPc = "indexing"
  /\ stack # <<>>
  /\ Head(stack).op \in {"schemaLoop", "jsonLoop"}
  /\ Head(stack).refs = <<>>
  /\ stack' = Tail(stack)
  /\ UNCHANGED <<documents, idxPc, fetched, schemaIndexed, jsonIndexed, references,
                 callbackCalls, idxResult>>
  /\ UNCHANGED <<derefVars, dynVars, valVars>>

\* addRootSchema returns.
AddRootSchemaReturn ==
  /\ idxPc = "indexing"
  /\ stack = <<>>
  /\ idxPc' = "done"
  /\ UNCHANGED <<documents, stack, fetched, schemaIndexed, jsonIndexed, references,
                 callbackCalls, idxResult>>
  /\ UNCHANGED <<derefVars, dynVars, valVars>>

\* this.find(uri, { followReferences: false }): the value at the uri within the
\* documents of the index, undefined when there is none.
find(uri) ==
  IF uri.doc \notin fetched THEN "undefined"
  ELSE IF uri.frag \in {"none", "location", "unindexedPointer"} THEN "node"
  ELSE IF uri.frag = "anchor" /\ Whole(uri.doc) \in schemaIndexed THEN "node"
  ELSE "undefined"

\* Every reference node of the documents, recorded in this.references or not.
AllReferences ==
  {[doc |-> d, i |-> i] : d \in DocNames, i \in 1..MaxRefs} \cap
    {r \in [doc : DocNames, i : 1..MaxRefs] : r.i <= Len(documents[r.doc])}

\* dereferenceReference(uri, reference, schemaPath), called once addRootSchema
\* is over: the result of find is returned as it is, and for a reference that
\* is not recorded find is called with undefined.
DereferenceReference ==
  /\ idxPc \in {"done", "thrown"}
  /\ \E r \in AllReferences :
       idxResult' = [reference |-> r,
                     value |-> IF r \in references THEN find(ResolvedURI(r)) ELSE "undefined"]
  /\ idxPc' = "asked"
  /\ UNCHANGED <<documents, stack, fetched, schemaIndexed, jsonIndexed, references,
                 callbackCalls>>
  /\ UNCHANGED <<derefVars, dynVars, valVars>>

NextIndex ==
  \/ DereferenceReference
  \/ AddRootSchema
  \/ CallAddSchemas
  \/ CallAddJSONReferences
  \/ SchemaLoopStep
  \/ JSONLoopStep
  \/ LoopReturn
  \/ AddRootSchemaReturn

SpecIndex == InitIndex /\ [][NextIndex]_vars

----------------------------------------------------------------------------
(* Properties of addRootSchema and dereferenceReference. *)


IndexEnded == idxPc \in {"done", "thrown"}

\* A document the index holds is not retrieved again.
NotFetchedAgain ==
  \A d \in DOMAIN callbackCalls : d \in fetched => callbackCalls'[d] = callbackCalls[d]

\* A root one of the content indexes holds is not gone through again: its
\* references are not collected anew.
NotIndexedAgain ==
  /\ CallAddSchemas /\ Head(stack).root \in schemaIndexed => Head(stack').refs = <<>>
  /\ CallAddJSONReferences /\ Head(stack).root \in jsonIndexed => Head(stack').refs = <<>>

SpecIndexFair == SpecIndex /\ WF_vars(NextIndex)

\* C12: addRootSchema comes to an end for every set of documents, documents
\* that refer to themselves or to each other included, and a document whose
\* absolute URI is indexed is neither retrieved nor gone through again.
C12_AddRootSchemaTerminates ==
  /\ <>IndexEnded
  /\ [][NotFetchedAgain /\ NotIndexedAgain]_vars

\* The two documents refer to each other and to themselves, and
\* addRootSchema has returned with both indexed.
C12_Witness ==
  /\ idxPc = "done"
  /\ fetched = {"base", "ext"}
  /\ \E i \in DOMAIN documents["base"] : documents["base"][i].to = "ext"
  /\ \E i \in DOMAIN documents["ext"] : documents["ext"][i].to = "base"

\* A session of either entry point: dereferenceJSONSchema or addRootSchema.
InitSession == Init \/ InitIndex
NextSession == Next \/ NextIndex
SpecSession == InitSession /\ [][NextSession]_vars

\* C13: within a session the retrieval callback is invoked at most once for
\* an absolute URI, however many references name it, and never for the base
\* URI.
C13_CallbackOncePerURI ==
  /\ \A u \in DOMAIN callbackCalls : callbackCalls[u] <= 1
  /\ callbackCalls["base"] = 0

\* dereferenceJSONSchema retrieved the other document for two references and
\* the base document for one at least.
C13_Witness ==
  /\ pc \notin {"off", "start"}
  /\ retrieved = "document"
  /\ Requests("ext") >= 2
  /\ Requests("base") >= 1
  /\ callbackCalls["ext"] = 1

\* The reference dereferenceReference was called with has no node to give:
\* it was never recorded, or nothing is indexed at its target.
Unresolvable ==
  \/ idxResult.reference \notin references
  \/ find(ResolvedURI(idxResult.reference)) = "undefined"

\* C14: dereferenceReference fails with an unresolved-reference error, and
\* does not return nothing, when the reference was never recorded or no node
\* is indexed at its target, a target whose document could not be retrieved
\* during addRootSchema included.
C14_UnresolvedReferenceFails ==
  idxPc = "asked" /\ Unresolvable => idxResult.value = "error"

----------------------------------------------------------------------------
(* Part 4: the keyword validators uniqueItems, dependentRequired and
   patternProperties (draft 2020-12).

   A validator is made from a schema and context.failFast and then called with
   an instance.  The instance is a value that is neither array nor object, an
   array of up to MaxItems items, or an object with own properties out of
   PropertyNames.  Indices count from 1 here and from 0 in the code. *)

MaxItems == 3

Item(t, v) == [t |-> t, v |-> v]
Items == {Item("number", 1), Item("number", 2), Item("string", 1)}
Arrays == UNION {[1..n -> Items] : n \in 0..MaxItems}
NonArrays == {Instance(t, <<>>, {}) : t \in {"null", "number", "string"}}

\* circularEqual(a, b): equality of JSON values, by type and content.
circularEqual(a, b) == a.t = b.t /\ a.v = b.v

\* assert(condition, message, ...): a valid Output, or an invalid one with the
\* message, which names what was collected.
assert(condition, collected) == IF condition THEN Out(TRUE, <<>>) ELSE Out(FALSE, collected)

RECURSIVE UniqueItemsFromSecondNext(_, _, _, _, _)
UniqueItemsFromSecondNext(items, failFast, i, j, matchingPairs) ==
  IF i > Len(items) THEN assert(matchingPairs = <<>>, matchingPairs)
  ELSE IF j > Len(items)
       THEN UniqueItemsFromSecondNext(items, failFast, i + 1, i + 3, matchingPairs)
  ELSE IF circularEqual(items[i], items[j])
       THEN IF failFast THEN Out(FALSE, <<(<<i, j>>)>>)
            ELSE UniqueItemsFromSecondNext(items, failFast, i, j + 1,
                                           Append(matchingPairs, <<i, j>>))
  ELSE UniqueItemsFromSecondNext(items, failFast, i, j + 1, matchingPairs)

\* The two loops of the uniqueItems validator, from the pair (i, j) on, and the
\* assert after them.
RECURSIVE UniqueItemsLoop(_, _, _, _, _)
UniqueItemsLoop(items, failFast, i, j, matchingPairs) ==
  IF i > Len(items) THEN assert(matchingPairs = <<>>, matchingPairs)
  ELSE IF j > Len(items) THEN UniqueItemsLoop(items, failFast, i + 1, i + 2, matchingPairs)
  ELSE IF circularEqual(items[i], items[j])
       THEN IF failFast THEN Out(FALSE, <<(<<i, j>>)>>)
            ELSE UniqueItemsLoop(items, failFast, i, j + 1, Append(matchingPairs, <<i, j>>))
  ELSE UniqueItemsLoop(items, failFast, i, j + 1, matchingPairs)

\* uniqueItemsValidator(schema, schemaLocation, context)(instance, ...): no
\* validator when uniqueItems is absent or falsy.
uniqueItemsValidator(uniqueItems, failFast, instance) ==
  IF uniqueItems # "true" THEN NoValidator
  ELSE IF instance.type # "array" THEN Out(TRUE, <<>>)
  ELSE UniqueItemsLoop(instance.items, failFast, 1, 2, <<>>)

UniqueItemsInputs ==
  {v \in [keyword : {"uniqueItems"}, failFast : BOOLEAN, present : BOOLEAN,
          uniqueItems : {"absent", "false", "true"}, entries : {<<>>},
          instance : NonArrays \cup {Instance("object", <<>>, {})}
                       \cup {Instance("array", a, {}) : a \in Arrays}] :
     v.present <=> v.uniqueItems # "absent"}

ValidateUniqueItems ==
  /\ valPc = "bound"
  /\ validation.keyword = "uniqueItems"
  /\ output' = uniqueItemsValidator(validation.uniqueItems, validation.failFast,
                                    validation.instance)
  /\ valPc' = "validated"
  /\ UNCHANGED validation
  /\ UNCHANGED <<derefVars, dynVars, idxVars>>

\* The own properties of an object instance, in the order of Object.entries.
PropertyOrder == <<"p", "q", "r", "hasOwnProperty">>
NonObjects == {Instance(t, <<>>, {}) : t \in {"null", "number", "array"}}
ObjectsOver(names) == {Instance("object", <<>>, keys) : keys \in SUBSET names}

MaxEntries == 2

\* The entries of dependentRequired: a property name with its dependencies.
DependentEntries == [name : {"p", "q"}, deps : SUBSET {"q", "r"}]
DependentRequiredSchemas ==
  {e \in UNION {[1..n -> DependentEntries] : n \in 0..MaxEntries} :
     \A i, j \in 1..Len(e) : i # j => e[i].name # e[j].name}

\* instance.hasOwnProperty(name): the method of Object.prototype, unless the
\* instance has an own property of that name, a JSON value, which is then
\* what is called.
hasOwnProperty(instance, name) ==
  IF "hasOwnProperty" \in instance.keys THEN [threw |-> TRUE, has |-> FALSE]
  ELSE [threw |-> FALSE, has |-> name \in instance.keys]

RECURSIVE MissingProperties(_, _, _)
MissingProperties(instance, deps, missing) ==
  IF deps = {} THEN [threw |-> FALSE, missing |-> missing]
  ELSE LET d == CHOOSE x \in deps : TRUE
           h == hasOwnProperty(instance, d)
       IN IF h.threw THEN [threw |-> TRUE, missing |-> missing]
          ELSE MissingProperties(instance, deps \ {d},
                                 IF h.has THEN missing ELSE missing \cup {d})

\* The loop over Object.entries(dependentRequired) and the Output after it.
RECURSIVE DependentRequiredLoop(_, _, _, _)
DependentRequiredLoop(entries, failFast, instance, invalidOutputs) ==
  IF entries = <<>>
    THEN IF invalidOutputs = <<>> THEN Out(TRUE, <<>>) ELSE Out(FALSE, invalidOutputs)
  ELSE LET e == Head(entries)
           own == hasOwnProperty(instance, e.name)
           m == MissingProperties(instance, e.deps, {})
           result == assert(m.missing = {}, <<e.name>>)
       IN IF own.threw THEN Threw
          ELSE IF ~own.has
               THEN DependentRequiredLoop(Tail(entries), failFast, instance, invalidOutputs)
          ELSE IF m.threw THEN Threw
          ELSE IF ~result.valid /\ failFast THEN result
          ELSE DependentRequiredLoop(Tail(entries), failFast, instance,
                                     IF result.valid THEN invalidOutputs
                                     ELSE Append(invalidOutputs, e.name))

\* dependentRequiredValidator(schema, schemaLocation, context)(instance, ...)
dependentRequiredValidator(present, dependentRequired, failFast, instance) ==
  IF ~present THEN NoValidator
  ELSE IF instance.type # "object" THEN Out(TRUE, <<>>)
  ELSE DependentRequiredLoop(dependentRequired, failFast, instance, <<>>)

DependentRequiredInputs ==
  {v \in [keyword : {"dependentRequired"}, failFast : BOOLEAN, present : BOOLEAN,
          uniqueItems : {"absent"}, entries : DependentRequiredSchemas,
          instance : NonObjects \cup ObjectsOver(Range(PropertyOrder))] :
     ~v.present => v.entries = <<>>}

ValidateDependentRequired ==
  /\ valPc = "bound"
  /\ validation.keyword = "dependentRequired"
  /\ output' = dependentRequiredValidator(validation.present, validation.entries,
                                          validation.failFast, validation.instance)
  /\ valPc' = "validated"
  /\ UNCHANGED validation
  /\ UNCHANGED <<derefVars, dynVars, idxVars>>

\* A pattern of patternProperties: the property names its RegExp matches and
\* the property names whose value the validator of its subschema finds
\* invalid.
Patterns == [matches : SUBSET {"p", "q"}, rejects : SUBSET {"p", "q"}]
PatternPropertiesSchemas == UNION {[1..n -> Patterns] : n \in 0..MaxEntries}

\* The own property names of the instance, in the order of Object.entries.
PropertyNames(instance) == SelectSeq(PropertyOrder, LAMBDA name : name \in instance.keys)

\* invalidOutputs[propertyName] = output: one entry for a property name.
Put(names, name) == IF name \in Range(names) THEN names ELSE Append(names, name)

\* outputs[propertyName] = output with one table for valid and invalid
\* outputs: the last output of a property name decides.
RECURSIVE PatternPropertiesLastOutput(_, _, _, _, _)
PatternPropertiesLastOutput(properties, patterns, k, failFast, invalidOutputs) ==
  IF properties = <<>>
    THEN IF invalidOutputs = <<>> THEN Out(TRUE, <<>>) ELSE Out(FALSE, invalidOutputs)
  ELSE IF k > Len(patterns)
    THEN PatternPropertiesLastOutput(Tail(properties), patterns, 1, failFast, invalidOutputs)
  ELSE LET propertyName == Head(properties)
           valid == propertyName \notin patterns[k].rejects
       IN IF propertyName \notin patterns[k].matches
            THEN PatternPropertiesLastOutput(properties, patterns, k + 1, failFast, invalidOutputs)
          ELSE IF ~valid /\ failFast THEN Out(FALSE, <<propertyName>>)
          ELSE PatternPropertiesLastOutput(properties, patterns, k + 1, failFast,
                 IF valid THEN SelectSeq(invalidOutputs, LAMBDA name : name # propertyName)
                 ELSE Put(invalidOutputs, propertyName))

\* The two loops of the patternProperties validator, from the property
\* properties[1] and the pattern patterns[k] on, and the Output after them.
RECURSIVE PatternPropertiesLoop(_, _, _, _, _)
PatternPropertiesLoop(properties, patterns, k, failFast, invalidOutputs) ==
  IF properties = <<>>
    THEN IF invalidOutputs = <<>> THEN Out(TRUE, <<>>) ELSE Out(FALSE, invalidOutputs)
  ELSE IF k > Len(patterns)
    THEN PatternPropertiesLoop(Tail(properties), patterns, 1, failFast, invalidOutputs)
  ELSE LET propertyName == Head(properties)
           valid == propertyName \notin patterns[k].rejects
       IN IF propertyName \notin patterns[k].matches
            THEN PatternPropertiesLoop(properties, patterns, k + 1, failFast, invalidOutputs)
          ELSE IF ~valid /\ failFast THEN Out(FALSE, <<propertyName>>)
          ELSE PatternPropertiesLoop(properties, patterns, k + 1, failFast,
                                     IF valid THEN invalidOutputs
                                     ELSE Put(invalidOutputs, propertyName))

\* patternPropertiesValidator(schema, schemaLocation, context)(instance, ...)
patternPropertiesValidator(present, patternProperties, failFast, instance) ==
  IF ~present THEN NoValidator
  ELSE IF instance.type # "object" THEN Out(TRUE, <<>>)
  ELSE PatternPropertiesLoop(PropertyNames(instance), patternProperties, 1, failFast, <<>>)

PatternPropertiesInputs ==
  {v \in [keyword : {"patternProperties"}, failFast : BOOLEAN, present : BOOLEAN,
          uniqueItems : {"absent"}, entries : PatternPropertiesSchemas,
          instance : NonObjects \cup ObjectsOver({"p", "q"})] :
     ~v.present => v.entries = <<>>}

ValidatePatternProperties ==
  /\ valPc = "bound"
  /\ validation.keyword = "patternProperties"
  /\ output' = patternPropertiesValidator(validation.present, validation.entries,
                                          validation.failFast, validation.instance)
  /\ valPc' = "validated"
  /\ UNCHANGED validation
  /\ UNCHANGED <<derefVars, dynVars, idxVars>>

InitValidate ==
  /\ validation \in UniqueItemsInputs \cup DependentRequiredInputs \cup PatternPropertiesInputs
  /\ valPc = "bound"
  /\ output = NoValidator
  /\ IndexIdle
  /\ index = [fragment |-> "pointer", extAnchor |-> "none"]
  /\ schemaPath = <<>>
  /\ dynPc = "off"
  /\ dynPos = 1
  /\ candidate = NoValue
  /\ dynResult = NoValue
  /\ schema = [k \in KeySet |-> Leaf(FALSE)]
  /\ pc = "off"
  /\ pos = 1
  /\ heap = <<>>
  /\ dereferencedByURI = [u \in IndexedURIs |-> Undefined]
  /\ placeholders = <<>>
  /\ retrieved = "no"
  /\ error = "none"
  /\ errorURI = ""

NextValidate ==
  \/ ValidateUniqueItems
  \/ ValidateDependentRequired
  \/ ValidatePatternProperties

SpecValidate == InitValidate /\ [][NextValidate]_vars

----------------------------------------------------------------------------
(* Properties of the keyword validators. *)

DistinctItems(items) ==
  \A i, j \in DOMAIN items : i # j => ~circularEqual(items[i], items[j])

\* C23: with uniqueItems true the validator reports an array valid exactly
\* when no two items at distinct indices are equal, and reports every instance
\* that is not an array valid; with uniqueItems absent or false there is no
\* validator.
C23_UniqueItemsValid ==
  (valPc = "validated" /\ validation.keyword = "uniqueItems") =>
    IF validation.uniqueItems # "true" THEN output = NoValidator
    ELSE /\ output.produced /\ ~output.threw
         /\ validation.instance.type # "array" => output.valid
         /\ validation.instance.type = "array" =>
              (output.valid <=> DistinctItems(validation.instance.items))

\* An array whose only equal items are the last two was validated.
C23_Witness ==
  /\ valPc = "validated"
  /\ validation.keyword = "uniqueItems"
  /\ validation.uniqueItems = "true"
  /\ validation.instance.type = "array"
  /\ Len(validation.instance.items) = MaxItems
  /\ circularEqual(validation.instance.items[MaxItems - 1], validation.instance.items[MaxItems])
  /\ \A j \in 2..MaxItems : ~circularEqual(validation.instance.items[1], validation.instance.items[j])
  /\ ~output.valid


\* Every key of dependentRequired that the instance has brings its
\* dependencies with it.
DependenciesPresent(entries, instance) ==
  \A k \in DOMAIN entries :
    entries[k].name \in instance.keys => entries[k].deps \subseteq instance.keys

\* C24: the dependentRequired validator reports an object valid exactly when,
\* for every key of dependentRequired that is an own property of the instance,
\* every listed dependency is an own property too; keys the instance lacks
\* impose nothing; every instance that is not an object is valid.
C24_DependentRequiredValid ==
  (valPc = "validated" /\ validation.keyword = "dependentRequired" /\ validation.present) =>
    /\ output.produced /\ ~output.threw
    /\ validation.instance.type # "object" => output.valid
    /\ validation.instance.type = "object" =>
         (output.valid <=> DependenciesPresent(validation.entries, validation.instance))

\* The Output of the validator of v.keyword, made with v.failFast, for
\* v.instance.
OutputFor(v) ==
  CASE v.keyword = "uniqueItems" ->
         uniqueItemsValidator(v.uniqueItems, v.failFast, v.instance)
    [] v.keyword = "dependentRequired" ->
         dependentRequiredValidator(v.present, v.entries, v.failFast, v.instance)
    [] v.keyword = "patternProperties" ->
         patternPropertiesValidator(v.present, v.entries, v.failFast, v.instance)

WithFailFast(failFast) == OutputFor([validation EXCEPT !.failFast = failFast])

\* C22: for the uniqueItems, dependentRequired and patternProperties
\* validators the valid flag of the Output for a schema and an instance is the
\* same with failFast true and false; failFast only changes how many errors
\* are collected, and never to more.
C22_FailFastSameValidity ==
  valPc = "validated" =>
    /\ output = WithFailFast(validation.failFast)
    /\ WithFailFast(TRUE).produced = WithFailFast(FALSE).produced
    /\ WithFailFast(TRUE).threw = WithFailFast(FALSE).threw
    /\ WithFailFast(TRUE).valid = WithFailFast(FALSE).valid
    /\ Len(WithFailFast(TRUE).errors) <= Len(WithFailFast(FALSE).errors)

\* A validator made with failFast has reported an instance invalid with
\* fewer errors than the validator made without it collects.
C22_Witness ==
  /\ valPc = "validated"
  /\ validation.failFast
  /\ output.produced /\ ~output.threw /\ ~output.valid
  /\ Len(output.errors) < Len(WithFailFast(FALSE).errors)

====
